---- MODULE Spec2Model ----
(***************************************************************************)
(* Model of libint's derivative-index permutation maps                     *)
(* (include/libint2/deriv_map.h, class DerivMapGenerator) and of the       *)
(* ordered integer-partition iterator (include/libint2/intpart_iter.h,     *)
(* FixedOrderedIntegerPartitionIterator).                                  *)
(*                                                                         *)
(* C++ containers are 0-based; sequences here are 1-based, so element j of *)
(* a std::vector v is v[j+1].  Values stored in the containers (coordinate *)
(* labels, flattened indices) keep their 0-based C++ values.               *)
(***************************************************************************)
EXTENDS Integers, Sequences, FiniteSets, TLC

VARIABLES
  unit,          \* the part of the library this run exercises
  pc,            \* "run", or how the run ended
  braket_xx_xx,  \* static std::vector<results> braket_xx_xx_maps
  braket_xs_xx,  \* static std::vector<results> braket_xs_xx_maps
  ninit,         \* history: number of initialize() calls made
  ret,           \* outcome of the last instance() call, with its arguments
                 \* and the number of initialize() calls that preceded it
  n_,            \* FixedOrderedIntegerPartitionIterator::n_
  partition_,    \* FixedOrderedIntegerPartitionIterator::partition_
  visited,       \* history: the partitions operator* has shown, in order
  rsize,         \* value returned by range_size(), -1 before the call
  arg_nparams,   \* arguments of a generate_multi_index_lookup call ...
  arg_order,
  combos,        \* ... and the list it returned
  sought,        \* a sorted tuple searched for in combos
  new_idx,       \* the index stored for it, -1 before the search
  hmd_k,         \* arguments of a how_many_derivs call ...
  hmd_n,
  hmd,           \* ... its loop state ...
  hmd_ret        \* ... and the value it returned, -1 before the return

vars == <<unit, pc, braket_xx_xx, braket_xs_xx, ninit, ret, n_, partition_,
          visited, rsize, arg_nparams, arg_order, combos, sought, new_idx,
          hmd_k, hmd_n, hmd, hmd_ret>>

cache_vars  == <<braket_xx_xx, braket_xs_xx, ninit, ret>>
iter_vars   == <<n_, partition_, visited, rsize>>
lookup_vars == <<arg_nparams, arg_order, combos, sought, new_idx>>
hmd_vars    == <<hmd_k, hmd_n, hmd, hmd_ret>>

\* ------------------------------------------------------------------ bounds
\* LIBINT2_MAX_DERIV_ORDER is a configuration macro; its value is not fixed
\* by the sources, so the model takes a small value for it.
LIBINT2_MAX_DERIV_ORDER == 2
\* number of initialize() calls explored
MaxInit == 2
\* largest n and k of a FixedOrderedIntegerPartitionIterator explored
MaxN == 4
MaxK == 4
\* largest nparams / deriv_order given to generate_multi_index_lookup alone
MaxParams == 4
MaxOrder == 3

\* ------------------------------------------------------- program constants
\* largest value of a 32-bit signed int (val and factorial are int)
INT_MAX == 2147483647
\* largest value of an unsigned char, the narrowest unsigned integer_type
UCHAR_MAX == 255

\* ------------------------------------------------------------ small tools
Min(a, b) == IF a < b THEN a ELSE b

\* lexicographic operator< of std::vector<int>
RECURSIVE LexLess(_, _)
LexLess(a, b) ==
  IF b = <<>> THEN FALSE
  ELSE IF a = <<>> THEN TRUE
  ELSE IF Head(a) < Head(b) THEN TRUE
  ELSE IF Head(b) < Head(a) THEN FALSE
  ELSE LexLess(Tail(a), Tail(b))

RECURSIVE SeqSum(_)
SeqSum(s) == IF s = <<>> THEN 0 ELSE Head(s) + SeqSum(Tail(s))

\* Pascal's rule: the reference value of a binomial coefficient
RECURSIVE Binom(_, _)
Binom(n, r) ==
  IF r < 0 \/ r > n THEN 0
  ELSE IF r = 0 \/ r = n THEN 1
  ELSE Binom(n - 1, r - 1) + Binom(n - 1, r)

\* ------------------------------------------- DerivMapGenerator: enumeration
\* cwr_recursion(inp, out, k, i, n): the tuples the call appends to 'result',
\* in the order it appends them.  'out' is pushed before and popped after
\* each recursive call, so every iteration of the loop starts from the same
\* 'out'; 'result' only ever grows at its end.
\* mutant of cwr_loop: the recursion resumes at j + 1, so no label repeats
RECURSIVE cwr_loop_no_repetition(_, _, _, _, _)
RECURSIVE cwr_recursion_no_repetition(_, _, _, _, _)
cwr_loop_no_repetition(inp, out, k, j, n) ==
  IF j < n
    THEN cwr_recursion_no_repetition(inp, Append(out, inp[j + 1]), k, j + 1, n)
           \o cwr_loop_no_repetition(inp, out, k, j + 1, n)
    ELSE <<>>

cwr_recursion_no_repetition(inp, out, k, i, n) ==
  IF Len(out) = k THEN <<out>> ELSE cwr_loop_no_repetition(inp, out, k, i, n)

RECURSIVE cwr_recursion(_, _, _, _, _)
RECURSIVE cwr_loop(_, _, _, _, _)
cwr_loop(inp, out, k, j, n) ==
  IF j < n
    THEN cwr_recursion(inp, Append(out, inp[j + 1]), k, j, n)
           \o cwr_loop(inp, out, k, j + 1, n)
    ELSE <<>>

cwr_recursion(inp, out, k, i, n) ==
  IF Len(out) = k THEN <<out>> ELSE cwr_loop(inp, out, k, i, n)

generate_multi_index_lookup(nparams, deriv_order) ==
  LET inp == [i \in 1..nparams |-> i - 1]
  IN  cwr_recursion(inp, <<>>, deriv_order, 0, nparams)

\* ------------------------------------------ DerivMapGenerator: arithmetic
\* State of the loop of how_many_derivs: val, factorial, the loop counter i
\* and ub, set once a signed multiplication overflows (undefined behaviour:
\* the values are then unspecified and the loop state is frozen).
hmd_init == [val |-> 1, factorial |-> 1, i |-> 0, ub |-> FALSE]

\* mutant of hmd_step: the factor is one too small (3k + i - 1)
hmd_step_shifted(st, k) ==
  LET m == 3 * k + st.i - 1
      f == st.i + 1
  IN  IF st.ub \/ st.val > INT_MAX \div m \/ st.factorial > INT_MAX \div f
        THEN [st EXCEPT !.ub = TRUE]
        ELSE [val |-> st.val * m, factorial |-> st.factorial * f,
              i |-> st.i + 1, ub |-> FALSE]

hmd_step(st, k) ==
  LET m == 3 * k + st.i
      f == st.i + 1
  IN  IF st.ub \/ st.val > INT_MAX \div m \/ st.factorial > INT_MAX \div f
        THEN [st EXCEPT !.ub = TRUE]
        ELSE [val |-> st.val * m, factorial |-> st.factorial * f,
              i |-> st.i + 1, ub |-> FALSE]

RECURSIVE hmd_loop(_, _, _)
hmd_loop(st, k, n) ==
  IF st.i < n /\ ~st.ub THEN hmd_loop(hmd_step(st, k), k, n) ELSE st

\* val /= factorial; return val
hmd_result(st) == st.val \div st.factorial

how_many_derivs(k, n) == hmd_result(hmd_loop(hmd_init, k, n))

\* --------------------------------- DerivMapGenerator: permutation tables
\* BraKet values: the two supported shapes and one the maps do not support
BraKet == {"xx_xx", "xs_xx", "xx_sx"}
SupportedBraKet == {"xx_xx", "xs_xx"}

swap_braket_perm(braket_) ==
  IF braket_ = "xx_xx" THEN <<6, 7, 8, 9, 10, 11, 0, 1, 2, 3, 4, 5>>
                       ELSE <<0, 1, 2, 3, 4, 5, 6, 7, 8>>

swap_bra_perm(braket_) ==
  IF braket_ = "xx_xx" THEN <<3, 4, 5, 0, 1, 2, 6, 7, 8, 9, 10, 11>>
                       ELSE <<0, 1, 2, 3, 4, 5, 6, 7, 8>>

swap_ket_perm(braket_) ==
  IF braket_ = "xx_xx" THEN <<0, 1, 2, 3, 4, 5, 9, 10, 11, 6, 7, 8>>
                       ELSE <<0, 1, 2, 6, 7, 8, 3, 4, 5>>

\* on/off combinations <<swap_braket, swap_bra, swap_ket>>, in loop order
swap_combos(braket_) ==
  IF braket_ = "xx_xx"
    THEN << <<0, 0, 0>>, <<0, 0, 1>>, <<0, 1, 0>>, <<0, 1, 1>>,
            <<1, 0, 0>>, <<1, 0, 1>>, <<1, 1, 0>>, <<1, 1, 1>> >>
    ELSE << <<0, 0, 0>>, <<0, 0, 1>> >>

ncenters(braket_) == IF braket_ = "xx_xx" THEN 4 ELSE 3

\* ------------------------------------------ DerivMapGenerator: the builder
\* mutant of permute_idx: the swaps are applied in the opposite order, ket
\* swap first and braket swap last
permute_idx_ket_first(idx, sw, braket_) ==
  LET i1 == IF sw[3] = 1 THEN swap_ket_perm(braket_)[idx + 1] ELSE idx
      i2 == IF sw[2] = 1 THEN swap_bra_perm(braket_)[i1 + 1] ELSE i1
      i3 == IF sw[1] = 1 THEN swap_braket_perm(braket_)[i2 + 1] ELSE i2
  IN  i3

\* one coordinate label through the enabled swaps (body of the j loop)
permute_idx(idx, sw, braket_) ==
  LET i1 == IF sw[1] = 1 THEN swap_braket_perm(braket_)[idx + 1] ELSE idx
      i2 == IF sw[2] = 1 THEN swap_bra_perm(braket_)[i1 + 1] ELSE i1
      i3 == IF sw[3] = 1 THEN swap_ket_perm(braket_)[i2 + 1] ELSE i2
  IN  i3

\* std::sort on a vector<int>: the ascending arrangement of its elements
RECURSIVE sort_insert(_, _)
sort_insert(s, x) ==
  IF s = <<>> THEN <<x>>
  ELSE IF x < Head(s) THEN <<x>> \o s
  ELSE <<Head(s)>> \o sort_insert(Tail(s), x)

RECURSIVE sort(_)
sort(s) == IF s = <<>> THEN <<>> ELSE sort_insert(sort(Tail(s)), Head(s))

\* mutant of permuted_indices: the permuted labels are not sorted
permuted_indices_unsorted(multi_idx, sw, braket_) ==
  [j \in 1..Len(multi_idx) |-> permute_idx(multi_idx[j], sw, braket_)]

\* permuted_indices of one multi-index, after the sort
permuted_indices(multi_idx, sw, braket_) ==
  sort([j \in 1..Len(multi_idx) |-> permute_idx(multi_idx[j], sw, braket_)])

\* mutant of lower_bound: std::upper_bound, the first element greater than
\* value
RECURSIVE upper_bound_from(_, _, _, _)
upper_bound_from(lookup, value, first, count) ==
  IF count <= 0 THEN first
  ELSE LET step == count \div 2
           it   == first + step
       IN  IF ~LexLess(value, lookup[it + 1])
             THEN upper_bound_from(lookup, value, it + 1, count - (step + 1))
             ELSE upper_bound_from(lookup, value, first, step)

upper_bound(lookup, value) == upper_bound_from(lookup, value, 0, Len(lookup))

\* std::lower_bound(lookup.begin(), lookup.end(), value): the 0-based
\* position of the first element not less than value, Len(lookup) for end()
RECURSIVE lower_bound_from(_, _, _, _)
lower_bound_from(lookup, value, first, count) ==
  IF count <= 0 THEN first
  ELSE LET step == count \div 2
           it   == first + step
       IN  IF LexLess(lookup[it + 1], value)
             THEN lower_bound_from(lookup, value, it + 1, count - (step + 1))
             ELSE lower_bound_from(lookup, value, first, step)

lower_bound(lookup, value) == lower_bound_from(lookup, value, 0, Len(lookup))

\* mutant of find_new_idx: the stored index is one too large
find_new_idx_off_by_one(lookup, value) ==
  LET it == lower_bound_from(lookup, value, 0, Len(lookup))
  IN  IF it # Len(lookup) THEN it + 1 ELSE 0

\* int new_idx = 0; it = lower_bound(...); if (it != end) new_idx = it - begin
find_new_idx(lookup, value) ==
  LET it == lower_bound(lookup, value)
  IN  IF it # Len(lookup) THEN it ELSE 0

\* the loop over the derivative indices for one swap combination
map_slice(lookup, nderivs, sw, braket_) ==
  [i \in 1..nderivs |->
     find_new_idx(lookup, permuted_indices(lookup[i], sw, braket_))]

\* The table is represented by the slices the loop writes: a function from
\* the shape's swap combinations to the nderivs-long index sequences.
generate_deriv_index_map(deriv_order, braket_) ==
  LET nderivs == how_many_derivs(ncenters(braket_), deriv_order)
      nparams == ncenters(braket_) * 3
      lookup  == generate_multi_index_lookup(nparams, deriv_order)
      swaps   == swap_combos(braket_)
  IN  [sw \in {swaps[s] : s \in 1..Len(swaps)} |->
         map_slice(lookup, nderivs, sw, braket_)]

\* ------------------------------------------------- DerivMapGenerator: cache
\* mutant of initialize_loop: each new table is inserted at the front
RECURSIVE initialize_loop_prepend(_, _, _)
initialize_loop_prepend(maps, braket_, i) ==
  IF i < LIBINT2_MAX_DERIV_ORDER
    THEN initialize_loop_prepend(
           <<generate_deriv_index_map(i + 1, braket_)>> \o maps, braket_, i + 1)
    ELSE maps

\* initialize(): one push_back per order onto each of the two static vectors
RECURSIVE initialize_loop(_, _, _)
initialize_loop(maps, braket_, i) ==
  IF i < LIBINT2_MAX_DERIV_ORDER
    THEN initialize_loop(Append(maps, generate_deriv_index_map(i + 1, braket_)),
                         braket_, i + 1)
    ELSE maps

\* the vector instance() indexes for a supported shape
maps_of(braket_) == IF braket_ = "xx_xx" THEN braket_xx_xx ELSE braket_xs_xx

\* instance(deriv_order_, braket_): the possible outcomes.
\*  - a supported shape indexes its vector with operator[] at deriv_order_-1,
\*    unchecked: inside the vector this is a reference to that element
\*    ("ref"); outside it is undefined behaviour, which a build shows as a
\*    crash ("segv") or as a reference to whatever lies there ("wild");
\*  - any other shape reaches assert(false): the process aborts ("assert")
\*    where assertions are compiled in; with NDEBUG control runs off the end
\*    of a non-void function, undefined behaviour again.
instance_outcomes(deriv_order_, braket_) ==
  IF braket_ \in SupportedBraKet
    THEN IF 0 <= deriv_order_ - 1 /\ deriv_order_ - 1 < Len(maps_of(braket_))
           THEN {[kind |-> "ref", braket |-> braket_, idx |-> deriv_order_ - 1]}
           ELSE {[kind |-> k, braket |-> braket_, idx |-> deriv_order_ - 1]
                   : k \in {"segv", "wild"}}
    ELSE {[kind |-> k, braket |-> braket_, idx |-> deriv_order_ - 1]
            : k \in {"assert", "segv", "wild"}}

\* the table a returned reference designates
deref(r) == maps_of(r.braket)[r.idx + 1]

initialize ==
  /\ unit = "cache" /\ pc = "run"
  /\ ninit < MaxInit
  /\ braket_xx_xx' = initialize_loop(braket_xx_xx, "xx_xx", 0)
  /\ braket_xs_xx' = initialize_loop(braket_xs_xx, "xs_xx", 0)
  /\ ninit' = ninit + 1
  /\ UNCHANGED <<unit, pc, ret, iter_vars, lookup_vars, hmd_vars>>

instance ==
  /\ unit = "cache" /\ pc = "run"
  /\ \E deriv_order_ \in 0..(LIBINT2_MAX_DERIV_ORDER + 1), braket_ \in BraKet :
       \E o \in instance_outcomes(deriv_order_, braket_) :
         /\ ret' = o @@ [deriv_order |-> deriv_order_, after |-> ninit]
         /\ pc' = IF o.kind \in {"assert", "segv"} THEN "aborted" ELSE "run"
  /\ UNCHANGED <<unit, braket_xx_xx, braket_xs_xx, ninit,
                 iter_vars, lookup_vars, hmd_vars>>

\* ------------------------------ FixedOrderedIntegerPartitionIterator
Zeros(len) == [j \in 1..len |-> 0]

\* the constructor: partition_ = {n, 0, ..., 0} of size k
construct(nn, kk) == <<nn>> \o Zeros(kk - 1)

\* mutant of first: the suffix is left as it is
first_no_reset(p) == p

\* first(partition, size): all of the sum onto the first element
first(p) == <<SeqSum(p)>> \o Zeros(Len(p) - 1)

\* last(partition, size): the last element carries the whole sum
last(p) == p[Len(p)] = SeqSum(p)

\* next(partition, size), for a partition whose last() is false (then the
\* assert(partition[0] != 0u) holds at every level of the recursion)
RECURSIVE next(_)
next(p) ==
  IF Len(p) = 1 THEN p
  ELSE IF last(Tail(p))
         THEN <<p[1] - 1>> \o first(<<p[2] + 1>> \o Tail(Tail(p)))
         ELSE <<p[1]>> \o next(Tail(p))

\* mutant of range_size_loop: the division comes before the multiplication
RECURSIVE range_size_loop_divide_first(_, _, _, _)
range_size_loop_divide_first(result, partition_size, d, nn) ==
  IF d <= nn
    THEN range_size_loop_divide_first((result \div d) * (partition_size + d - 1),
                                      partition_size, d + 1, nn)
    ELSE result

\* range_size(): result *= (partition_size + d - 1); result /= d, d = 1..n_
RECURSIVE range_size_loop(_, _, _, _)
range_size_loop(result, partition_size, d, nn) ==
  IF d <= nn
    THEN range_size_loop((result * (partition_size + d - 1)) \div d,
                         partition_size, d + 1, nn)
    ELSE result

range_size(nn, partition_size) == range_size_loop(1, partition_size, 1, nn)

\* the stepping loop of a caller: next() while last() is false
op_next ==
  /\ unit = "iter" /\ pc = "run"
  /\ ~last(partition_)
  /\ partition_' = next(partition_)
  /\ visited' = Append(visited, partition_')
  /\ UNCHANGED <<unit, pc, n_, rsize, cache_vars, lookup_vars, hmd_vars>>

\* next() called although last() is true: what the call can do.
\*  - size 1: 'if (size == 1) return;', the call returns and nothing changed;
\*  - size > 1: the partition is {0,...,0,n}, so last(partition+1, size-1)
\*    holds and partition[0] is 0: assert(partition[0] != 0u) aborts the
\*    process where assertions are compiled in; with NDEBUG the code goes on,
\*    --partition[0] leaves -1 in a signed integer_type and the largest value
\*    in an unsigned one (UCHAR_MAX for unsigned char), ++partition[1] and
\*    first() on the rest follow, and the call returns.
next_at_last_outcomes(p) ==
  IF Len(p) = 1
    THEN {[pc |-> "returned", partition |-> p]}
    ELSE {[pc |-> "aborted", partition |-> p]}
           \cup {[pc |-> "returned",
                  partition |-> <<w>> \o first(<<p[2] + 1>> \o Tail(Tail(p)))]
                   : w \in {-1, UCHAR_MAX}}

\* a caller steps past the end; the run is not followed further
op_next_at_last ==
  /\ unit = "iter" /\ pc = "run"
  /\ last(partition_)
  /\ \E o \in next_at_last_outcomes(partition_) :
       /\ pc' = o.pc
       /\ partition_' = o.partition
       /\ visited' = IF o.pc = "returned" THEN Append(visited, o.partition)
                                           ELSE visited
  /\ UNCHANGED <<unit, n_, rsize, cache_vars, lookup_vars, hmd_vars>>

op_range_size ==
  /\ unit = "iter" /\ pc = "run"
  /\ rsize = -1
  /\ rsize' = range_size(n_, Len(partition_))
  /\ UNCHANGED <<unit, pc, n_, partition_, visited,
                 cache_vars, lookup_vars, hmd_vars>>

\* ------------------------------------- the private functions, on their own
op_generate_multi_index_lookup ==
  /\ unit = "lookup" /\ pc = "run"
  /\ combos' = generate_multi_index_lookup(arg_nparams, arg_order)
  /\ pc' = "done"
  /\ UNCHANGED <<unit, arg_nparams, arg_order, sought, new_idx,
                 cache_vars, iter_vars, hmd_vars>>

\* one iteration of the loop of how_many_derivs
op_how_many_derivs_iter ==
  /\ unit = "hmd" /\ pc = "run"
  /\ hmd.i < hmd_n
  /\ hmd' = hmd_step(hmd, hmd_k)
  /\ pc' = IF hmd'.ub THEN "ub" ELSE "run"
  /\ UNCHANGED <<unit, hmd_k, hmd_n, hmd_ret, cache_vars, iter_vars, lookup_vars>>

\* val /= factorial; return val
op_how_many_derivs_return ==
  /\ unit = "hmd" /\ pc = "run"
  /\ hmd.i = hmd_n
  /\ hmd_ret' = hmd_result(hmd)
  /\ pc' = "done"
  /\ UNCHANGED <<unit, hmd_k, hmd_n, hmd, cache_vars, iter_vars, lookup_vars>>

\* The search-and-store step of generate_deriv_index_map on its own: the
\* sorted tuple 'sought' is looked up in the list 'combos' and the index
\* found is stored.  The code has no other exit from this step.
op_find ==
  /\ unit = "find" /\ pc = "run"
  /\ new_idx' = find_new_idx(combos, sought)
  /\ pc' = "done"
  /\ UNCHANGED <<unit, arg_nparams, arg_order, combos, sought,
                 cache_vars, iter_vars, hmd_vars>>

\* ------------------------------------------------------------ specification
cache_idle  == /\ braket_xx_xx = <<>> /\ braket_xs_xx = <<>>
               /\ ninit = 0 /\ ret = [kind |-> "none"]
iter_idle   == /\ n_ = 0 /\ partition_ = <<>> /\ visited = <<>> /\ rsize = -1
lookup_idle == /\ arg_nparams = 0 /\ arg_order = 0 /\ combos = <<>>
               /\ sought = <<>> /\ new_idx = -1
hmd_idle    == /\ hmd_k = 0 /\ hmd_n = 0 /\ hmd = hmd_init /\ hmd_ret = -1

\* the static vectors are empty until initialize() runs
InitCache ==
  /\ unit = "cache" /\ cache_idle /\ iter_idle /\ lookup_idle /\ hmd_idle

\* an iterator right after FixedOrderedIntegerPartitionIterator(n, k)
InitIter ==
  /\ unit = "iter" /\ cache_idle /\ lookup_idle /\ hmd_idle
  /\ \E nn \in 0..MaxN, kk \in 1..MaxK :
       /\ n_ = nn
       /\ partition_ = construct(nn, kk)
       /\ visited = <<construct(nn, kk)>>
  /\ rsize = -1

InitLookup ==
  /\ unit = "lookup" /\ cache_idle /\ iter_idle /\ hmd_idle
  /\ arg_nparams \in (1..MaxParams) \cup {3 * ncenters(b) : b \in SupportedBraKet}
  /\ arg_order \in 1..MaxOrder
  /\ combos = <<>> /\ sought = <<>> /\ new_idx = -1

\* how_many_derivs as generate_deriv_index_map calls it
InitHmd ==
  /\ unit = "hmd" /\ cache_idle /\ iter_idle /\ lookup_idle
  /\ hmd_k \in {ncenters(b) : b \in SupportedBraKet}
  /\ hmd_n \in 1..LIBINT2_MAX_DERIV_ORDER
  /\ hmd = hmd_init /\ hmd_ret = -1

\* The search step given any sorted tuple of the right length, also one
\* with a label beyond nparams - 1 (what a permutation table with an entry
\* out of range would produce), against the list the code builds.
InitFind ==
  /\ unit = "find" /\ pc = "run" /\ cache_idle /\ iter_idle /\ hmd_idle
  /\ arg_nparams \in 1..MaxParams /\ arg_order \in 1..MaxOrder
  /\ combos = generate_multi_index_lookup(arg_nparams, arg_order)
  /\ sought \in {sort(t) : t \in [1..arg_order -> 0..arg_nparams]}
  /\ new_idx = -1

SpecFind == InitFind /\ [][op_find]_vars

Init == pc = "run" /\ (InitCache \/ InitIter \/ InitLookup \/ InitHmd)

Next ==
  \/ initialize
  \/ instance
  \/ op_next
  \/ op_next_at_last
  \/ op_range_size
  \/ op_generate_multi_index_lookup
  \/ op_how_many_derivs_iter
  \/ op_how_many_derivs_return

Spec == Init /\ [][Next]_vars

\* ================================================================== claims
\* the derivative order of entry j (1-based) of a per-shape vector
OrderOfEntry(j) == ((j - 1) % LIBINT2_MAX_DERIV_ORDER) + 1

\* nderivs of a shape and order, from the closed form
NDerivs(braket_, d) == Binom(3 * ncenters(braket_) + d - 1, d)

\* the symmetry combinations that apply to a shape
ApplicableCombos(braket_) ==
  IF braket_ = "xx_xx"
    THEN {<<a, b, c>> : a \in {0, 1}, b \in {0, 1}, c \in {0, 1}}
    ELSE {<<0, 0, 0>>, <<0, 0, 1>>}

\* C1: for every supported shape, every order 1..MAX and every symmetry
\* combination that applies to the shape, the slice i -> map[a][b][c][i] of
\* the table built by generate_deriv_index_map is a bijection on
\* [0, nderivs): all values in range, no two indices with the same value,
\* every index hit.
C1_SliceIsBijection ==
  \A b \in SupportedBraKet : \A j \in 1..Len(maps_of(b)) :
    LET m  == maps_of(b)[j]
        nd == NDerivs(b, OrderOfEntry(j))
    IN  /\ DOMAIN m = ApplicableCombos(b)
        /\ \A sw \in DOMAIN m :
             /\ Len(m[sw]) = nd
             /\ \A i \in 1..nd : m[sw][i] \in 0..(nd - 1)
             /\ Cardinality({m[sw][i] : i \in 1..nd}) = nd
             /\ {m[sw][i] : i \in 1..nd} = 0..(nd - 1)

\* C1 witness: initialize() has built the 4-center table of order 2, and its
\* bra-swap slice moves an index (tuple (0,0) goes to tuple (3,3))
C1_Witness ==
  /\ ninit >= 1 /\ Len(braket_xx_xx) >= 2
  /\ Len(braket_xx_xx[2][<<0, 1, 0>>]) = 78
  /\ braket_xx_xx[2][<<0, 1, 0>>][1] # 0

\* C2: for every supported shape and order, map[0][0][0][i] = i for every i
\* in [0, nderivs): the combination with no swap enabled is the identity.
C2_NoSwapIsIdentity ==
  \A b \in SupportedBraKet : \A j \in 1..Len(maps_of(b)) :
    LET m  == maps_of(b)[j]
        nd == NDerivs(b, OrderOfEntry(j))
    IN  /\ <<0, 0, 0>> \in DOMAIN m
        /\ Len(m[<<0, 0, 0>>]) = nd
        /\ \A i \in 1..nd : m[<<0, 0, 0>>][i] = i - 1

\* C2 witness: both shapes have their order-2 table, whose no-swap slice
\* ends at the last flattened index
C2_Witness ==
  /\ ninit >= 1 /\ Len(braket_xx_xx) >= 2 /\ Len(braket_xs_xx) >= 2
  /\ braket_xx_xx[2][<<0, 0, 0>>][78] = 77
  /\ braket_xs_xx[2][<<0, 0, 0>>][45] = 44

\* the composed coordinate permutation of a combination is an involution
IsInvolution(sw, braket_) ==
  \A x \in 0..(3 * ncenters(braket_) - 1) :
    permute_idx(permute_idx(x, sw, braket_), sw, braket_) = x

\* C10: for every supported shape and order and every combination whose
\* composed coordinate permutation is an involution, applying the map twice
\* returns every index to itself: map[a][b][c][map[a][b][c][i]] = i.
C10_InvolutionRoundTrip ==
  \A b \in SupportedBraKet : \A j \in 1..Len(maps_of(b)) :
    LET m == maps_of(b)[j]
    IN  \A sw \in DOMAIN m :
          IsInvolution(sw, b) =>
            \A i \in 1..Len(m[sw]) : m[sw][m[sw][i] + 1] = i - 1

\* C10 witness: the order-2 tables exist; the ket swap alone is an involution
\* that moves indices in both shapes, and the 4-center combination (1,0,1),
\* of order 4, is not one (its slice does not return index 0 to itself)
C10_Witness ==
  /\ ninit >= 1 /\ Len(braket_xx_xx) >= 2 /\ Len(braket_xs_xx) >= 2
  /\ IsInvolution(<<0, 0, 1>>, "xx_xx") /\ IsInvolution(<<0, 0, 1>>, "xs_xx")
  /\ \E i \in 1..78 : braket_xx_xx[2][<<0, 0, 1>>][i] # i - 1
  /\ \E i \in 1..45 : braket_xs_xx[2][<<0, 0, 1>>][i] # i - 1
  /\ ~IsInvolution(<<1, 0, 1>>, "xx_xx")
  /\ LET s == braket_xx_xx[2][<<1, 0, 1>>] IN s[s[1] + 1] # 0

\* ------------------------------------------------ the index list (C3)
IsNonDecreasing(t) == \A j \in 1..(Len(t) - 1) : t[j] <= t[j + 1]

\* all non-decreasing tuples of length d over [0, np)
NonDecreasingTuples(np, d) ==
  {t \in [1..d -> 0..(np - 1)] : IsNonDecreasing(t)}

\* C3: generate_multi_index_lookup(nparams, deriv_order), nparams >= 1 and
\* deriv_order >= 1, returns a list (i) of length C(nparams+deriv_order-1,
\* deriv_order), (ii) strictly ascending in lexicographic order, (iii) of
\* non-decreasing tuples of length deriv_order over [0, nparams), (iv) that
\* contains every such tuple exactly once.
C3_LookupIsCanonicalList ==
  (unit = "lookup" /\ pc = "done") =>
    /\ Len(combos) = Binom(arg_nparams + arg_order - 1, arg_order)
    /\ \A j \in 1..(Len(combos) - 1) : LexLess(combos[j], combos[j + 1])
    /\ \A j \in 1..Len(combos) :
         /\ Len(combos[j]) = arg_order
         /\ \A x \in 1..arg_order : combos[j][x] \in 0..(arg_nparams - 1)
         /\ IsNonDecreasing(combos[j])
    /\ {combos[j] : j \in 1..Len(combos)}
         = NonDecreasingTuples(arg_nparams, arg_order)
    /\ Cardinality({combos[j] : j \in 1..Len(combos)}) = Len(combos)

\* C3 witness: the call for 4 parameters at order 3 has returned its 20
\* tuples, from (0,0,0) to (3,3,3), the tuple (0,1,1) among them
C3_Witness ==
  /\ unit = "lookup" /\ pc = "done"
  /\ arg_nparams = 4 /\ arg_order = 3
  /\ Len(combos) = 20
  /\ combos[1] = <<0, 0, 0>> /\ combos[20] = <<3, 3, 3>>
  /\ \E j \in 1..20 : combos[j] = <<0, 1, 1>>

\* ------------------------------------------- the partition iterator (C4, C5)
\* p is an ordered partition of nn into kk non-negative parts
IsPartition(p, nn, kk) ==
  /\ Len(p) = kk
  /\ \A j \in 1..kk : p[j] \in 0..nn
  /\ SeqSum(p) = nn

\* all ordered partitions of nn into kk non-negative parts
AllPartitions(nn, kk) == {p \in [1..kk -> 0..nn] : SeqSum(p) = nn}

\* the sequence the documentation gives for n = 2, k = 3
DocSequence ==
  << <<2, 0, 0>>, <<1, 1, 0>>, <<1, 0, 1>>, <<0, 2, 0>>, <<0, 1, 1>>, <<0, 0, 2>> >>

\* C4: starting from {n,0,...,0} and calling next() while last() is false,
\* the iterator visits every ordered partition of n into k parts exactly
\* once, each one strictly lexicographically smaller than the one before,
\* and last() is true only at the final one, {0,...,0,n}; for n = 2, k = 3
\* the visited sequence is {2,0,0},{1,1,0},{1,0,1},{0,2,0},{0,1,1},{0,0,2}.
C4_ReverseLexEnumeration ==
  (unit = "iter" /\ pc = "run") =>
    LET kk == Len(partition_) IN
    /\ visited[1] = construct(n_, kk)
    /\ visited[Len(visited)] = partition_
    /\ \A j \in 1..Len(visited) : IsPartition(visited[j], n_, kk)
    /\ \A j \in 1..(Len(visited) - 1) : LexLess(visited[j + 1], visited[j])
    /\ \A j \in 1..Len(visited) :
         last(visited[j]) <=>
           (j = Len(visited) /\ visited[j] = Zeros(kk - 1) \o <<n_>>)
    /\ last(partition_) =>
         /\ {visited[j] : j \in 1..Len(visited)} = AllPartitions(n_, kk)
         /\ Len(visited) = Cardinality(AllPartitions(n_, kk))
    /\ (n_ = 2 /\ kk = 3) =>
         /\ Len(visited) <= Len(DocSequence)
         /\ visited = SubSeq(DocSequence, 1, Len(visited))
         /\ last(partition_) => visited = DocSequence

\* C4 witness: the iterator for n = 2, k = 3 has been stepped to its last
\* partition through all six
C4_Witness ==
  /\ unit = "iter" /\ pc = "run" /\ n_ = 2 /\ Len(partition_) = 3
  /\ last(partition_) /\ partition_ = <<0, 0, 2>>
  /\ Len(visited) = 6

\* C5: range_size() of an iterator built from (n, k) is C(k+n-1, n) and is
\* the number of partitions seen by stepping with next() from the initial
\* one until last() is true, both counted; the stepping terminates (it can
\* always go on until last(), and never shows more than range_size()
\* partitions); for n = 0 the count is 1 and last() is true at once.
C5_RangeSizeCountsSteps ==
  (unit = "iter" /\ pc = "run" /\ rsize # -1) =>
    /\ rsize = Binom(Len(partition_) + n_ - 1, n_)
    /\ Len(visited) <= rsize
    /\ last(partition_) <=> Len(visited) = rsize
    /\ ~last(partition_) => ENABLED op_next
    /\ n_ = 0 => (rsize = 1 /\ Len(visited) = 1 /\ last(partition_)
                  /\ partition_ = Zeros(Len(partition_)))

\* C5 witness: range_size() returned C(6,3) = 20 for n = 3, k = 4, and the
\* stepping has reached the last partition after showing 20
C5_Witness ==
  /\ unit = "iter" /\ pc = "run" /\ n_ = 3 /\ Len(partition_) = 4
  /\ rsize = 20 /\ last(partition_) /\ Len(visited) = 20

\* ------------------------------------------------- how_many_derivs (C9)
\* C9: for ncenters in {3,4} and deriv_order in 1..MAX, how_many_derivs
\* returns C(3*ncenters+deriv_order-1, deriv_order), and neither val nor
\* factorial leaves the range of a 32-bit signed int at any step;
\* how_many_derivs(3,2) = 45 and how_many_derivs(4,1) = 12.
C9_HowManyDerivsExact ==
  unit = "hmd" =>
    /\ ~hmd.ub /\ pc # "ub"
    /\ hmd.val >= 1 /\ hmd.val <= INT_MAX
    /\ hmd.factorial >= 1 /\ hmd.factorial <= INT_MAX
    /\ hmd.val % hmd.factorial = 0
    /\ pc = "done" =>
         /\ hmd_ret = Binom(3 * hmd_k + hmd_n - 1, hmd_n)
         /\ (hmd_k = 3 /\ hmd_n = 2) => hmd_ret = 45
         /\ (hmd_k = 4 /\ hmd_n = 1) => hmd_ret = 12

\* C9 witness: how_many_derivs(3, 2) has returned, after two iterations that
\* left val = 9 * 10 and factorial = 2
C9_Witness ==
  /\ unit = "hmd" /\ pc = "done"
  /\ hmd_k = 3 /\ hmd_n = 2
  /\ hmd.val = 90 /\ hmd.factorial = 2 /\ hmd_ret = 45

\* ------------------------------------------------------ the cache (C7, C8)
\* the map of every supported shape and order, as the builder produces it
BuiltMaps ==
  [b \in SupportedBraKet |->
     [d \in 1..LIBINT2_MAX_DERIV_ORDER |-> generate_deriv_index_map(d, b)]]

\* C7 (as claimed): once initialize() has run, instance(deriv_order, shape)
\* ends in an assertion or another fatal error, returning no table, when the
\* shape is unsupported or deriv_order is outside 1..MAX, and returns the
\* table stored for that order and shape otherwise.
C7_InstanceRejectsBadArguments ==
  (unit = "cache" /\ ret.kind # "none" /\ ret.after >= 1) =>
    IF ret.braket \in SupportedBraKet
         /\ ret.deriv_order \in 1..LIBINT2_MAX_DERIV_ORDER
      THEN /\ ret.kind = "ref"
           /\ deref(ret) = BuiltMaps[ret.braket][ret.deriv_order]
      ELSE ret.kind \in {"assert", "segv"}

\* C8 (as claimed): once initialize() has run at least once, each per-shape
\* sequence has length exactly MAX and entry deriv_order-1 is the map of
\* that order, whatever initialize() and instance() calls were made.
C8_ExactlyOneMapPerPair ==
  (unit = "cache" /\ ninit >= 1) =>
    \A b \in SupportedBraKet :
      /\ Len(maps_of(b)) = LIBINT2_MAX_DERIV_ORDER
      /\ \A d \in 1..LIBINT2_MAX_DERIV_ORDER :
           maps_of(b)[d] = BuiltMaps[b][d]

C8_State ==
  unit = "cache" =>
    \A b \in SupportedBraKet :
      /\ Len(maps_of(b)) = ninit * LIBINT2_MAX_DERIV_ORDER
      /\ \A j \in 1..Len(maps_of(b)) :
           maps_of(b)[j] = BuiltMaps[b][OrderOfEntry(j)]

C8_Step ==
  /\ Len(braket_xx_xx') >= Len(braket_xx_xx)
  /\ Len(braket_xs_xx') >= Len(braket_xs_xx)
  /\ \A j \in 1..Len(braket_xx_xx) : braket_xx_xx'[j] = braket_xx_xx[j]
  /\ \A j \in 1..Len(braket_xs_xx) : braket_xs_xx'[j] = braket_xs_xx[j]
  /\ ninit' = ninit => UNCHANGED <<braket_xx_xx, braket_xs_xx>>

\* C8 (amended): after j initialize() calls each per-shape sequence has
\* length j * MAX and entry i (0-based) is the map of order (i mod MAX) + 1,
\* so entry deriv_order-1 is the map of that order and, after exactly one
\* initialize(), the cache holds exactly one map per (deriv_order, shape);
\* no stored entry ever changes: instance() leaves the sequences as they
\* are and a further initialize() only appends.
C8_AppendOnlyCache == []C8_State /\ [][C8_Step]_vars

\* C8 witness: initialize() has run twice and instance() has returned a
\* reference since
C8_Witness ==
  /\ unit = "cache" /\ ninit = 2
  /\ Len(braket_xx_xx) = 2 * LIBINT2_MAX_DERIV_ORDER
  /\ Len(braket_xs_xx) = 2 * LIBINT2_MAX_DERIV_ORDER
  /\ ret.kind = "ref" /\ ret.after = 2

\* ------------------------------------------- the search for the index (C6)
\* C6 (as claimed): when the sorted tuple is not an element of the index
\* list, the build fails fatally and stores nothing: not index 0, not the
\* index of another tuple.
C6_NotFoundIsFatal ==
  (unit = "find" /\ pc # "run" /\ \A j \in 1..Len(combos) : combos[j] # sought)
    => (pc = "aborted" /\ new_idx = -1)

\* ------------------------------------------ what a table entry means (C11)
\* the canonical index list of every supported shape and order
CanonicalLists ==
  [b \in SupportedBraKet |->
     [d \in 1..LIBINT2_MAX_DERIV_ORDER |->
        generate_multi_index_lookup(3 * ncenters(b), d)]]

\* a base permutation raised to a 0/1 flag, applied to the label x
PermPower(perm, flag, x) == IF flag = 1 THEN perm[x + 1] ELSE x

\* ket^c(bra^b(braket^a(x))): braket swap first, ket swap last
ComposedLabel(x, sw, braket_) ==
  PermPower(swap_ket_perm(braket_), sw[3],
    PermPower(swap_bra_perm(braket_), sw[2],
      PermPower(swap_braket_perm(braket_), sw[1], x)))

\* number of occurrences of y in the tuple t
Count(t, y) == Cardinality({p \in 1..Len(t) : t[p] = y})

\* s is the ascending arrangement of the labels of t
IsSortedArrangementOf(s, t) ==
  /\ Len(s) = Len(t)
  /\ IsNonDecreasing(s)
  /\ \A p \in 1..Len(t) : Count(s, t[p]) = Count(t, t[p])

\* C11: for every supported shape, order and applicable combination (a,b,c),
\* map[a][b][c][i] is the position in the canonical index list of the tuple
\* got from canonical tuple i by replacing each coordinate x with
\* ket^c(bra^b(braket^a(x))) and sorting ascending; for the 4-center shape
\* at order 1, map[1][0][0][i] = swap_braket_perm[i] for all i in [0,12).
C11_EntryIsPositionOfPermutedTuple ==
  /\ \A b \in SupportedBraKet : \A j \in 1..Len(maps_of(b)) :
       LET m == maps_of(b)[j]
           L == CanonicalLists[b][OrderOfEntry(j)]
       IN  \A sw \in ApplicableCombos(b) :
             /\ sw \in DOMAIN m
             /\ Len(m[sw]) = Len(L)
             /\ \A i \in 1..Len(L) :
                  /\ m[sw][i] \in 0..(Len(L) - 1)
                  /\ IsSortedArrangementOf(
                       L[m[sw][i] + 1],
                       [p \in 1..Len(L[i]) |-> ComposedLabel(L[i][p], sw, b)])
  /\ Len(braket_xx_xx) >= 1 =>
       /\ Len(braket_xx_xx[1][<<1, 0, 0>>]) = 12
       /\ \A i \in 0..11 :
            braket_xx_xx[1][<<1, 0, 0>>][i + 1] = swap_braket_perm("xx_xx")[i + 1]

\* C11 witness: the 4-center tables exist; at order 1 the combination
\* (1,1,0) sends label 0 to 6 (braket swap, then bra swap of the result)
\* and label 6 to 3, and at order 2 it sends tuple (0,6) to the position of
\* tuple (3,6), which needed the sort
C11_Witness ==
  /\ ninit >= 1 /\ Len(braket_xx_xx) >= 2
  /\ braket_xx_xx[1][<<1, 0, 0>>] = <<6, 7, 8, 9, 10, 11, 0, 1, 2, 3, 4, 5>>
  /\ braket_xx_xx[1][<<1, 1, 0>>][1] = 6
  /\ braket_xx_xx[1][<<1, 1, 0>>][7] = 3
  /\ CanonicalLists["xx_xx"][2][7] = <<0, 6>>
  /\ CanonicalLists["xx_xx"][2][braket_xx_xx[2][<<1, 1, 0>>][7] + 1] = <<3, 6>>

\* ----------------------------------------------- next() past the end (C12)
\* C12 (as claimed): next() called while last() is true is an error for
\* every n >= 0 and k >= 1: the call fails (assertion or throw) and yields
\* neither a further partition nor a state whose parts do not sum to n.
C12_NextAtLastFails ==
  (unit = "iter" /\ pc # "run") =>
    /\ pc = "aborted"
    /\ partition_ = visited[Len(visited)]
    /\ IsPartition(partition_, n_, Len(partition_))

====
